---- MODULE Spec2Model ----
(***************************************************************************)
(* Model of the bot analytics monitor: the Delivery Client (AnalyticsSDK)  *)
(* of src/infrastructure/analytics_sdk.py, and the ingestion side          *)
(* (WebhookServer, AnalyticsHttpServer, AnalyticsService, the SQLite       *)
(* repositories).                                                          *)
(*                                                                         *)
(* The Delivery Client is an asyncio program: a step of the model is the   *)
(* code a task runs between two suspension points (session.post, the       *)
(* backoff sleep, the periodic sleep, awaiting the batch task).  Python    *)
(* 3.8+ semantics of cancellation: asyncio.CancelledError is a             *)
(* BaseException, so "except Exception" does not catch it.                 *)
(***************************************************************************)
EXTENDS Integers, Sequences, FiniteSets, TLC

\* ---------------------------------------------------------------- bounds
MaxEvents == 3
BatchSize == 2
MaxRetries == 2
LiveEvents == 2
MaxRows == 2
MaxJobs == 1
MaxStored == 3
MaxWindow == 2
MaxAttempts == 3
MaxDeliveries == 3
TicksPerDay == 2

\* ------------------------------------------------------- Delivery Client
VARIABLES
  interaction_queue,  \* self.interaction_queue: deque of tracked events (by track index)
  batch_task,         \* self.batch_task: position of _batch_processor
  cancel_pending,     \* batch_task.cancel() was called, CancelledError not yet delivered
  flush,              \* per task: the _send_batch/_send_webhook activation it runs
  pc,                 \* per caller task: the SDK call it is inside
  call,               \* per caller task: queue contents and number of track calls made
                      \* when its flush() (for "cl": its close()) was called
  session,            \* self.session
  tracked,            \* number of track(immediate=false) calls made so far
  accepted,           \* events the endpoint has accepted at least once
  flushRet,           \* return value of the last completed flush() of a producer
                      \* ("true"/"false"), or track(send_immediately=True) ("sent"/"unsent")
  endpointUp,         \* the endpoint has reached the point after which it accepts everything
  sent_count,         \* self.sent_count
  failed_count,       \* self.failed_count
  last_error,         \* self.last_error
  log,                \* the attempts of the _send_webhook call made last: the events it
                      \* carries, the status of each attempt, the backoff sleeps, the result
  completed           \* number of _send_webhook calls that have returned

\* the statistics of the client and the record of its deliveries
wvars == <<sent_count, failed_count, last_error, log, completed>>

cvars == <<interaction_queue, batch_task, cancel_pending, flush, pc, call,
           session, tracked, accepted, flushRet, endpointUp, wvars>>

\* ------------------------------------------- Bot Registry, Interaction Store, endpoints
VARIABLES
  bot_configs,        \* table bot_configs: set of BotConfig rows
  user_interactions,  \* table user_interactions: rows in insertion (AUTOINCREMENT id) order
  jobs,               \* running track_interaction loops: background tasks and inline calls
  exchange            \* the request the endpoints answered last and the response to it,
                      \* forgotten when the registry changes

svars == <<bot_configs, user_interactions, jobs, exchange>>

\* ------------------------------------------------------------- configuration
VARIABLES
  batch_size,         \* self.batch_size: constructor argument of AnalyticsSDK
  max_retries,        \* self.max_retries: constructor argument of AnalyticsSDK
  tz_offset,          \* the server's local time minus UTC, in ticks (TicksPerDay per day)
  answer              \* the last query made to the repositories or the service, and its result

qvars == <<batch_size, max_retries, tz_offset, answer>>

vars == <<cvars, svars, qvars>>

Producers == {"p1", "p2"}
Callers == Producers \cup {"cl"}
Tasks == Callers \cup {"bg"}

NoFlush == [batch |-> <<>>, attempt |-> 0, phase |-> "none"]
NoCall == [queued |-> <<>>, mark |-> 0]
\* self.last_error = None
NoError == [kind |-> "none", status |-> 0]
NoLog == [events |-> 0, statuses |-> <<>>, waits |-> <<>>, result |-> "none"]

Range(s) == {s[i] : i \in 1..Len(s)}
Min(a, b) == IF a < b THEN a ELSE b

\* the loop "while self.interaction_queue and len(interactions) < self.batch_size: popleft"
Drained(q) == SubSeq(q, 1, Min(Len(q), batch_size))
AfterDrain(q) == SubSeq(q, Min(Len(q), batch_size) + 1, Len(q))

\* the loop "for interaction_dict in interactions: self.interaction_queue.appendleft(...)"
RECURSIVE AppendLeftAll(_, _)
AppendLeftAll(q, items) ==
  IF items = <<>> THEN q
  ELSE AppendLeftAll(<<Head(items)>> \o q, Tail(items))

\* _get_session: a missing or closed session is replaced by a new one
GetSession(s) == "open"

\* the first attempt of _send_webhook, right after the drain of _send_batch
FirstPost(q) == [batch |-> Drained(q), attempt |-> 0, phase |-> "post"]

InitClient ==
  /\ interaction_queue = <<>>
  /\ batch_task = "none"
  /\ cancel_pending = FALSE
  /\ flush = [t \in Tasks |-> NoFlush]
  /\ pc = [t \in Callers |-> "idle"]
  /\ call = [t \in Callers |-> NoCall]
  /\ session = "none"
  /\ tracked = 0
  /\ accepted = {}
  /\ flushRet = "none"
  /\ endpointUp = FALSE
  /\ sent_count = 0
  /\ failed_count = 0
  /\ last_error = NoError
  /\ log = NoLog
  /\ completed = 0

\* session.close(): requests of other tasks still waiting on that session are cut off
SessionClosed(fl) ==
  [u \in Tasks |->
     IF fl[u].phase = "post" THEN [fl[u] EXCEPT !.phase = "post_closed"] ELSE fl[u]]

\* what one POST can end in: "ok" = status 200 read by the client, "lost_ack" = the
\* endpoint accepted the request but the client got a transport error, "fail" = the
\* endpoint did not accept it (other status, or transport error before acceptance)
Outcomes(t) ==
  IF flush[t].phase = "post_closed" THEN {"fail", "lost_ack"}
  ELSE IF endpointUp THEN {"ok"}
  ELSE {"ok", "lost_ack", "fail"}

\* the awaiter of the batch task (close) is woken when the task terminates
CloserWoken(p) == [p EXCEPT !["cl"] = IF p["cl"] = "await_task" THEN "resume" ELSE p["cl"]]

\* (mutant) the periodic flush sends full batches only
BgFlushesFullOnly(q) == Len(q) >= batch_size

\* _batch_processor after asyncio.sleep(batch_timeout): "if self.interaction_queue:"
BgFlushes(q) == q # <<>>

\* the event of a track_interaction(send_immediately=True) call: it is in no queue, so
\* it carries no track index
ImmediateEvent == 0

\* (mutant) a failed delivery puts its events back in the queue, immediate or not
RequeuedAlways(t, q, items) == AppendLeftAll(q, items)

\* the queue after a delivery by task t failed for good: _send_batch puts its events
\* back, _send_single_interaction only returns the result
Requeued(t, q, items) ==
  IF t \in Producers /\ pc[t] = "immediate" THEN q ELSE AppendLeftAll(q, items)

\* track_interaction(send_immediately=True) -> _send_single_interaction -> _send_webhook
TrackImmediate(t) ==
  /\ pc[t] = "idle"
  /\ flush' = [flush EXCEPT ![t] = [batch |-> <<ImmediateEvent>>, attempt |-> 0,
                                    phase |-> "post"]]
  /\ pc' = [pc EXCEPT ![t] = "immediate"]
  /\ session' = GetSession(session)
  /\ UNCHANGED <<interaction_queue, batch_task, cancel_pending, call, tracked, accepted,
                 flushRet, endpointUp>>
  /\ UNCHANGED <<svars, qvars, wvars>>

\* (mutant) the size-triggered flush waits for one event more than batch_size
BatchFullLate(q) == Len(q) > batch_size

\* _add_to_batch: "if len(self.interaction_queue) >= self.batch_size:"
BatchFull(q) == Len(q) >= batch_size

\* track_interaction(send_immediately=False) -> _add_to_batch
Track(t) ==
  /\ pc[t] = "idle"
  /\ tracked < MaxEvents
  /\ LET q1 == Append(interaction_queue, tracked + 1) IN
       /\ tracked' = tracked + 1
       /\ batch_task' = IF batch_task \in {"none", "done"} THEN "created" ELSE batch_task
       /\ IF BatchFull(q1)
          THEN /\ interaction_queue' = AfterDrain(q1)
               /\ flush' = [flush EXCEPT ![t] = FirstPost(q1)]
               /\ pc' = [pc EXCEPT ![t] = "track"]
               /\ session' = GetSession(session)
          ELSE /\ interaction_queue' = q1
               /\ UNCHANGED <<flush, pc, session>>
  /\ UNCHANGED <<cancel_pending, call, accepted, flushRet, endpointUp>>
  /\ UNCHANGED <<svars, qvars, wvars>>

\* flush() called by a producer task
Flush(t) ==
  /\ pc[t] = "idle"
  /\ IF interaction_queue = <<>>
     THEN /\ flushRet' = "true"
          /\ UNCHANGED <<interaction_queue, flush, pc, call, session>>
     ELSE /\ interaction_queue' = AfterDrain(interaction_queue)
          /\ flush' = [flush EXCEPT ![t] = FirstPost(interaction_queue)]
          /\ pc' = [pc EXCEPT ![t] = "flush"]
          /\ call' = [call EXCEPT ![t] = [queued |-> interaction_queue, mark |-> tracked]]
          /\ session' = GetSession(session)
          /\ UNCHANGED flushRet
  /\ UNCHANGED <<batch_task, cancel_pending, tracked, accepted, endpointUp>>
  /\ UNCHANGED <<svars, qvars, wvars>>

\* the batch task runs for the first time and reaches asyncio.sleep(batch_timeout)
BgStart ==
  /\ batch_task = "created"
  /\ ~cancel_pending
  /\ batch_task' = "sleeping"
  /\ UNCHANGED <<interaction_queue, cancel_pending, flush, pc, call, session, tracked,
                 accepted, flushRet, endpointUp>>
  /\ UNCHANGED <<svars, qvars, wvars>>

\* the periodic timeout fires: "if self.interaction_queue: await self._send_batch()"
BgWake ==
  /\ batch_task = "sleeping"
  /\ ~cancel_pending
  /\ BgFlushes(interaction_queue)
  /\ interaction_queue' = AfterDrain(interaction_queue)
  /\ flush' = [flush EXCEPT !["bg"] = FirstPost(interaction_queue)]
  /\ batch_task' = "sending"
  /\ session' = GetSession(session)
  /\ UNCHANGED <<cancel_pending, pc, call, tracked, accepted, flushRet, endpointUp>>
  /\ UNCHANGED <<svars, qvars, wvars>>

\* (mutant) close() returns without releasing the session
FinishCloseKeepsSession(fl) ==
  /\ pc' = [pc EXCEPT !["cl"] = "closed"]
  /\ session' = session
  /\ flush' = fl

\* close(), after its final flush: "if self.session and not self.session.closed: close()"
FinishClose(fl) ==
  /\ pc' = [pc EXCEPT !["cl"] = "closed"]
  /\ session' = IF session = "open" THEN "closed" ELSE session
  /\ flush' = IF session = "open" THEN SessionClosed(fl) ELSE fl

\* the code that runs in task t when its _send_batch returns result r, the queue being q
Done(t, r, q) ==
  /\ interaction_queue' = q
  /\ CASE t = "bg" ->
            /\ flush' = [flush EXCEPT ![t] = NoFlush]
            /\ IF batch_task = "sending"
               THEN batch_task' = "sleeping" /\ pc' = pc
               ELSE batch_task' = "done" /\ pc' = CloserWoken(pc)
            /\ UNCHANGED <<call, session, flushRet>>
       [] t = "cl" ->
            /\ FinishClose([flush EXCEPT ![t] = NoFlush])
            /\ UNCHANGED <<batch_task, call, flushRet>>
       [] t \in Producers /\ pc[t] = "track" ->
            /\ flush' = [flush EXCEPT ![t] = NoFlush]
            /\ pc' = [pc EXCEPT ![t] = "idle"]
            /\ UNCHANGED <<batch_task, call, session, flushRet>>
       [] t \in Producers /\ pc[t] = "flush" ->
            /\ flush' = [flush EXCEPT ![t] = NoFlush]
            /\ pc' = [pc EXCEPT ![t] = "idle"]
            /\ call' = [call EXCEPT ![t] = NoCall]
            /\ flushRet' = IF r THEN "true" ELSE "false"
            /\ UNCHANGED <<batch_task, session>>
       [] t \in Producers /\ pc[t] = "immediate" ->
            /\ flush' = [flush EXCEPT ![t] = NoFlush]
            /\ pc' = [pc EXCEPT ![t] = "idle"]
            /\ flushRet' = IF r THEN "sent" ELSE "unsent"
            /\ UNCHANGED <<batch_task, call, session>>

\* one attempt of _send_webhook ends (the response, or an exception, reaches the client):
\* what it does to the queue, the delivery and the caller
AttemptEnds(t, o) ==
  /\ flush[t].phase \in {"post", "post_closed"}
  /\ ~(t = "bg" /\ cancel_pending)
  /\ o \in Outcomes(t)
  /\ LET f == flush[t]
     IN /\ accepted' = IF o \in {"ok", "lost_ack"} THEN accepted \cup Range(f.batch)
                        ELSE accepted
        /\ IF o = "ok"
           THEN Done(t, TRUE, interaction_queue)
           ELSE IF f.attempt < max_retries - 1
           THEN /\ flush' = [flush EXCEPT ![t].phase = "backoff"]
                /\ UNCHANGED <<interaction_queue, batch_task, pc, call, session, flushRet>>
           ELSE Done(t, FALSE, Requeued(t, interaction_queue, f.batch))
  /\ UNCHANGED <<cancel_pending, tracked, endpointUp>>

\* an attempt ends with outcome o; the statistics of the client are left aside
Respond(t, o) ==
  /\ AttemptEnds(t, o)
  /\ UNCHANGED <<svars, qvars, wvars>>

\* ---- _send_webhook attempt by attempt, with the statistics it keeps
\* no response: session.post raised
TransportError == 0
\* what an attempt can end with: no response, or the status of the response
Statuses == {TransportError, 200, 201, 500}

\* "if response.status == 200:"
Succeeds(status) == status = 200

\* the endpoint has accepted the request when it answers in the 2xx range
OutcomeOf(status) ==
  IF Succeeds(status) THEN "ok"
  ELSE IF status \in 200..299 THEN "lost_ack"
  ELSE "fail"

\* "await asyncio.sleep(2 ** attempt)"
BackoffDelay(attempt) == 2 ^ attempt

\* (mutant) sent_count counts the events delivered
SentCountByEvents(count, batch) == count + Len(batch)

\* "self.sent_count += 1"
SentCount(count, batch) == count + 1

\* one attempt of _send_webhook ends with the given status
SendWebhookAttempt(t, status) ==
  /\ completed < MaxDeliveries
  /\ AttemptEnds(t, OutcomeOf(status))
  /\ LET f == flush[t]
         base == IF f.attempt = 0 THEN NoLog ELSE log
         ok == Succeeds(status)
         last == ~(f.attempt < max_retries - 1)
     IN /\ sent_count' = IF ok THEN SentCount(sent_count, f.batch) ELSE sent_count
        /\ failed_count' = IF ~ok /\ last THEN failed_count + 1 ELSE failed_count
        /\ last_error' =
             IF ok THEN last_error
             ELSE IF status = TransportError THEN [kind |-> "exception", status |-> 0]
             ELSE [kind |-> "http", status |-> status]
        /\ log' = [events |-> Len(f.batch),
                   statuses |-> Append(base.statuses, status),
                   waits |-> IF ~ok /\ ~last THEN Append(base.waits, BackoffDelay(f.attempt))
                             ELSE base.waits,
                   result |-> IF ok THEN "true" ELSE IF last THEN "false" ELSE "none"]
        /\ completed' = IF ok \/ last THEN completed + 1 ELSE completed
  /\ UNCHANGED <<svars, qvars>>

\* asyncio.sleep(2 ** attempt) is over: the next attempt posts the same payload
Backoff(t) ==
  /\ flush[t].phase = "backoff"
  /\ ~(t = "bg" /\ cancel_pending)
  /\ flush' = [flush EXCEPT ![t] = [@ EXCEPT !.attempt = @ + 1, !.phase = "post"]]
  /\ session' = GetSession(session)
  /\ UNCHANGED <<interaction_queue, batch_task, cancel_pending, pc, call, tracked,
                 accepted, flushRet, endpointUp>>
  /\ UNCHANGED <<svars, qvars, wvars>>

\* close(): "await self.flush()" and what follows it
FinalFlush ==
  IF interaction_queue = <<>>
  THEN /\ FinishClose(flush)
       /\ UNCHANGED interaction_queue
  ELSE /\ interaction_queue' = AfterDrain(interaction_queue)
       /\ flush' = [flush EXCEPT !["cl"] = FirstPost(interaction_queue)]
       /\ pc' = [pc EXCEPT !["cl"] = "final_flush"]
       /\ session' = GetSession(session)

\* close() is called: cancel the batch task and await it, or go on to the final flush
CloseCall ==
  /\ pc["cl"] = "idle"
  /\ IF batch_task \notin {"none", "done"}
     THEN /\ cancel_pending' = TRUE
          /\ pc' = [pc EXCEPT !["cl"] = "await_task"]
          /\ UNCHANGED <<interaction_queue, flush, session>>
     ELSE /\ FinalFlush
          /\ UNCHANGED cancel_pending
  /\ call' = [call EXCEPT !["cl"] = [queued |-> <<>>, mark |-> tracked]]
  /\ UNCHANGED <<batch_task, tracked, accepted, flushRet, endpointUp>>
  /\ UNCHANGED <<svars, qvars, wvars>>

\* CancelledError is raised in the batch task at the point where it is suspended; a
\* request cut off while waiting for the response may or may not have been accepted
BgCancelled ==
  /\ cancel_pending
  /\ cancel_pending' = FALSE
  /\ \E o \in {"fail", "lost_ack"} :
       /\ o = "lost_ack" => flush["bg"].phase = "post"
       /\ accepted' = IF o = "lost_ack" THEN accepted \cup Range(flush["bg"].batch)
                      ELSE accepted
  /\ IF batch_task = "created" \/ interaction_queue = <<>>
     THEN /\ batch_task' = "done"
          /\ pc' = CloserWoken(pc)
          /\ flush' = [flush EXCEPT !["bg"] = NoFlush]
          /\ UNCHANGED <<interaction_queue, session>>
     ELSE /\ batch_task' = "handler_send"
          /\ interaction_queue' = AfterDrain(interaction_queue)
          /\ flush' = [flush EXCEPT !["bg"] = FirstPost(interaction_queue)]
          /\ session' = GetSession(session)
          /\ UNCHANGED pc
  /\ UNCHANGED <<call, tracked, flushRet, endpointUp>>
  /\ UNCHANGED <<svars, qvars, wvars>>

\* close() resumes after "await self.batch_task"
CloseResume ==
  /\ pc["cl"] = "resume"
  /\ FinalFlush
  /\ UNCHANGED <<batch_task, cancel_pending, call, tracked, accepted, flushRet, endpointUp>>
  /\ UNCHANGED <<svars, qvars, wvars>>

\* from here on the endpoint accepts every request
Stabilise ==
  /\ ~endpointUp
  /\ endpointUp' = TRUE
  /\ UNCHANGED <<interaction_queue, batch_task, cancel_pending, flush, pc, call, session,
                 tracked, accepted, flushRet>>
  /\ UNCHANGED <<svars, qvars, wvars>>


\* ------------------------------------------------------------ ingestion side
Null == "null"
Tokens == {"t1", "t2"}
UserIds == {1, 2}
WebhookSecret == "s1"
OtherSecret == "s2"
ApiKey == "k1"
OtherKey == "k2"
\* the day of datetime.now() on the server
ServerDay == 0

\* Bot(token).get_me().id: the platform's id of the bot that owns the token
BotIdOf(token) == IF token = "t1" THEN "b1" ELSE "b2"

\* InteractionData of the SDK, as track_interaction builds it
InteractionData(u, d) ==
  [user_id |-> u, interaction_type |-> "message", username |-> Null, first_name |-> Null,
   last_name |-> Null, language_code |-> Null, message_text |-> Null, timestamp |-> d]

\* datetime.isoformat() and its inverse (datetime.fromisoformat, pydantic's datetime field)
Isoformat(d) == <<"iso", d>>
FromIsoformat(x) == x[2]

\* asdict(interaction) with the timestamp replaced by its ISO string
InteractionDict(i) == [i EXCEPT !.timestamp = Isoformat(i.timestamp)]

\* the payload of _send_batch
SendBatchPayload(bot_token, interactions) ==
  [bot_token |-> bot_token,
   interactions |-> [k \in 1..Len(interactions) |-> InteractionDict(interactions[k])]]

\* the payload of _send_single_interaction
SendSinglePayload(bot_token, interaction) ==
  [bot_token |-> bot_token] @@ InteractionDict(interaction)

\* hmac.new(secret, payload, sha256).hexdigest(): one digest per (key, message)
Hmac(secret, payload) == <<secret, payload>>

\* a request without the signature header
NoSignature == [present |-> FALSE, prefix |-> "", hex |-> <<>>]

\* _create_signature: f"sha256={signature}"
CreateSignature(secret, payload) ==
  [present |-> TRUE, prefix |-> "sha256=", hex |-> Hmac(secret, payload)]

\* WebhookServer._verify_signature
VerifySignature(payload, signature) ==
  /\ signature.prefix = "sha256="
  /\ signature.hex = Hmac(WebhookSecret, payload)

\* AnalyticsHttpServer._verify_api_key
VerifyApiKey(x_api_key) == x_api_key = ApiKey

\* pydantic: the fields of InteractionPayload / InteractionData (server) without default
RequiredFields == {"bot_token", "user_id", "interaction_type"}

ValidInteractionPayload(o) == RequiredFields \subseteq DOMAIN o

\* BatchInteractionPayload: bot_token: str, interactions: List[InteractionPayload]
ValidBatchPayload(o) ==
  /\ {"bot_token", "interactions"} \subseteq DOMAIN o
  /\ \A k \in 1..Len(o.interactions) : ValidInteractionPayload(o.interactions[k])

Opt(o, k) == IF k \in DOMAIN o THEN o[k] ELSE Null

\* the validated model object: optional fields default to None, timestamp to now
Parsed(o) ==
  [user_id |-> o.user_id, interaction_type |-> o.interaction_type,
   username |-> Opt(o, "username"), first_name |-> Opt(o, "first_name"),
   last_name |-> Opt(o, "last_name"), language_code |-> Opt(o, "language_code"),
   message_text |-> Opt(o, "message_text"),
   timestamp |-> IF "timestamp" \in DOMAIN o THEN FromIsoformat(o.timestamp) ELSE ServerDay]

\* UserInteraction as AnalyticsService.track_interaction builds it
UserInteraction(bot_id, i) ==
  [bot_id |-> bot_id, user_id |-> i.user_id, username |-> i.username,
   first_name |-> i.first_name, last_name |-> i.last_name,
   language_code |-> i.language_code, interaction_type |-> i.interaction_type,
   timestamp |-> i.timestamp, message_text |-> i.message_text]

\* BotConfig as AnalyticsService.add_bot builds it at time now
BotConfigData(bot_id, name, token, description, now) ==
  [bot_id |-> bot_id, name |-> name, token |-> token, description |-> description,
   created_at |-> now, is_active |-> TRUE]

\* a BotConfig registered without description at ServerDay
BotConfig(bot_id, name, token) == BotConfigData(bot_id, name, token, Null, ServerDay)

\* (mutant) created_at is left to the column's DEFAULT CURRENT_TIMESTAMP
BotConfigRowDefaultTimestamp(c) ==
  [c EXCEPT !.created_at = Isoformat(ServerDay),
            !.is_active = IF c.is_active THEN 1 ELSE 0]

\* the row create inserts: the datetime is bound as its ISO text, the bool as 0 / 1
BotConfigRow(c) ==
  [c EXCEPT !.created_at = Isoformat(c.created_at),
            !.is_active = IF c.is_active THEN 1 ELSE 0]

\* the BotConfig get_by_id / get_by_token build from a fetched row
RowToBotConfig(row) ==
  [row EXCEPT !.created_at = FromIsoformat(row.created_at),
              !.is_active = (row.is_active # 0)]

\* SQLiteBotConfigRepository.get_by_id / get_by_token: the matching rows (at most one)
GetById(bot_id) == {RowToBotConfig(row) : row \in {c \in bot_configs : c.bot_id = bot_id}}
GetByToken(token) == {RowToBotConfig(row) : row \in {c \in bot_configs : c.token = token}}

\* ---- the requests the endpoints are sent
Events == {InteractionData(u, ServerDay) : u \in UserIds}
BatchChoices == {<<InteractionData(1, ServerDay)>>,
                 <<InteractionData(1, ServerDay), InteractionData(2, ServerDay)>>}

\* bodies for the single-event endpoints: what the client sends, and one without user_id
SingleBodies ==
  {SendSinglePayload(tok, ev) : tok \in Tokens, ev \in Events}
    \cup {[bot_token |-> "t1", interaction_type |-> "message"]}

\* batch bodies as the Delivery Client produces them
ClientBatchBodies == {SendBatchPayload(tok, b) : tok \in Tokens, b \in BatchChoices}

\* batch bodies in which every element repeats the credential
CredentialedBatchBodies ==
  {[bot_token |-> tok,
    interactions |-> [k \in 1..Len(b) |-> SendSinglePayload(tok, b[k])]] :
     tok \in Tokens, b \in BatchChoices}

SignatureChoices(body) ==
  {NoSignature, CreateSignature(WebhookSecret, body), CreateSignature(OtherSecret, body),
   [CreateSignature(WebhookSecret, body) EXCEPT !.prefix = "sha1="]}

Requests ==
  {[endpoint |-> "/track-interaction", api_key |-> k, signature |-> NoSignature, body |-> b] :
     k \in {Null, ApiKey, OtherKey}, b \in SingleBodies}
  \cup UNION {{[endpoint |-> "/webhook/interaction", api_key |-> Null, signature |-> sg,
                body |-> b] : sg \in SignatureChoices(b)} : b \in SingleBodies}
  \cup UNION {{[endpoint |-> "/webhook/batch", api_key |-> Null, signature |-> sg,
                body |-> b] : sg \in SignatureChoices(b)} :
              b \in ClientBatchBodies \cup CredentialedBatchBodies}

NoRequest == [endpoint |-> "none", api_key |-> Null, signature |-> NoSignature,
              body |-> [bot_token |-> Null]]
NoExchange == [req |-> NoRequest, status |-> 0, registered |-> FALSE, resent |-> FALSE]

\* the events a request asks to record, as the handler passes them on
ItemsOf(req) ==
  IF req.endpoint = "/webhook/batch"
  THEN [k \in 1..Len(req.body.interactions) |-> Parsed(req.body.interactions[k])]
  ELSE <<Parsed(req.body)>>

\* the status the framework or the handler answers before any processing; 0 = none
Rejection(req) ==
  CASE req.endpoint = "/track-interaction" ->
         IF req.api_key = Null THEN 422
         ELSE IF ~VerifyApiKey(req.api_key) THEN 401
         ELSE IF ~ValidInteractionPayload(req.body) THEN 422
         ELSE 0
    [] req.endpoint = "/webhook/interaction" ->
         IF ~ValidInteractionPayload(req.body) THEN 422
         ELSE IF req.signature.present /\ ~VerifySignature(req.body, req.signature) THEN 401
         ELSE 0
    [] req.endpoint = "/webhook/batch" ->
         IF ~ValidBatchPayload(req.body) THEN 422
         ELSE IF req.signature.present /\ ~VerifySignature(req.body, req.signature) THEN 401
         ELSE 0

PendingRows == Len(user_interactions) + (IF jobs = <<>> THEN 0 ELSE Len(jobs[1].items))

RemoveAt(sq, i) == SubSeq(sq, 1, i - 1) \o SubSeq(sq, i + 1, Len(sq))

\* no query made yet, or a write made since the last one
NoAnswer == [op |-> "none", bot_id |-> Null, days |-> 0, result |-> Null]

InitServer ==
  /\ bot_configs = {}
  /\ user_interactions = <<>>
  /\ jobs = <<>>
  /\ exchange = NoExchange

\* an endpoint receives request req (resent: the sender repeats its last request)
Handle(req, resent) ==
  LET st == Rejection(req)
      answered(status) ==
        [req |-> req, status |-> status,
         registered |-> GetByToken(req.body.bot_token) # {},
         resent |-> resent]
  IN IF st # 0
     THEN /\ exchange' = answered(st)
          /\ UNCHANGED <<bot_configs, user_interactions, jobs>>
     ELSE /\ Len(jobs) < MaxJobs
          /\ PendingRows + Len(ItemsOf(req)) <= MaxRows
          /\ jobs' = Append(jobs, [req |-> req, items |-> ItemsOf(req), pos |-> "lookup",
                                   target |-> Null, found |-> FALSE, resent |-> resent])
          \* the webhook endpoints answer at once, /track-interaction after the call
          /\ exchange' = IF req.endpoint = "/track-interaction" THEN exchange
                         ELSE answered(200)
          /\ UNCHANGED <<bot_configs, user_interactions>>

Receive(req) ==
  /\ Handle(req, FALSE)
  /\ UNCHANGED <<cvars, qvars>>

\* the sender got no answer and posts the same request again
Resend ==
  /\ exchange.req # NoRequest
  /\ Handle(exchange.req, TRUE)
  /\ UNCHANGED <<cvars, qvars>>

\* a job's current track_interaction call returned
JobAdvanced(i, j) ==
  IF Len(j.items) > 1
  THEN /\ jobs' = [jobs EXCEPT ![i] = [j EXCEPT !.items = Tail(j.items), !.pos = "lookup",
                                                 !.target = Null]]
       /\ UNCHANGED exchange
  ELSE /\ jobs' = RemoveAt(jobs, i)
       /\ exchange' = IF j.req.endpoint = "/track-interaction"
                      THEN [req |-> j.req, status |-> 200, registered |-> j.found,
                            resent |-> j.resent]
                      ELSE exchange

\* AnalyticsService.track_interaction, first half: "await get_by_token(...)"
Lookup(i) ==
  /\ i \in 1..Len(jobs)
  /\ jobs[i].pos = "lookup"
  /\ LET j == jobs[i]
         cfgs == GetByToken(j.req.body.bot_token)
     IN IF cfgs = {}
        THEN JobAdvanced(i, [j EXCEPT !.found = FALSE])
        ELSE /\ jobs' = [jobs EXCEPT ![i] = [j EXCEPT !.pos = "insert", !.found = TRUE,
                                    !.target = (CHOOSE c \in cfgs : TRUE).bot_id]]
             /\ UNCHANGED exchange
  /\ UNCHANGED <<bot_configs, user_interactions>>
  /\ UNCHANGED <<cvars, qvars>>

\* second half: "await record_interaction(interaction)"
RecordInteraction(i) ==
  /\ i \in 1..Len(jobs)
  /\ jobs[i].pos = "insert"
  /\ user_interactions' =
       Append(user_interactions, UserInteraction(jobs[i].target, Head(jobs[i].items)))
  /\ JobAdvanced(i, jobs[i])
  /\ UNCHANGED bot_configs
  /\ answer' = NoAnswer
  /\ UNCHANGED <<cvars, batch_size, max_retries, tz_offset>>

\* AnalyticsService.add_bot called at time now returns what create returns: the
\* BotConfig it built
AddBotReturns(name, token, description, now) ==
  BotConfigData(BotIdOf(token), name, token, description, now)

\* (mutant) add_bot without the lookup by bot_id, create without the PRIMARY KEY
AddBotAtUncheckedId(name, token, description, now) ==
  /\ GetByToken(token) = {}
  /\ bot_configs' = bot_configs \cup
       {[bot_id |-> BotIdOf(token), name |-> name, token |-> token,
         description |-> description, created_at |-> Isoformat(now), is_active |-> 1]}
  /\ exchange' = NoExchange
  /\ UNCHANGED <<user_interactions, jobs>>
  /\ answer' = NoAnswer
  /\ UNCHANGED <<cvars, batch_size, max_retries, tz_offset>>

AddBotAt(name, token, description, now) ==
  /\ GetById(BotIdOf(token)) = {}
  /\ GetByToken(token) = {}
  /\ bot_configs' = bot_configs \cup {BotConfigRow(AddBotReturns(name, token, description, now))}
  /\ exchange' = NoExchange
  /\ UNCHANGED <<user_interactions, jobs>>
  /\ answer' = NoAnswer
  /\ UNCHANGED <<cvars, batch_size, max_retries, tz_offset>>

\* AnalyticsService.add_bot without description, at ServerDay
Register(name, token) == AddBotAt(name, token, Null, ServerDay)

\* the rows SQLiteBotConfigRepository.delete leaves in user_interactions
InteractionsAfterDelete(rows, bot_id) == SelectSeq(rows, LAMBDA r : r.bot_id # bot_id)

\* what delete returns: cursor.rowcount > 0 of the DELETE FROM bot_configs
DeleteReturns(bot_id) == GetById(bot_id) # {}

\* AnalyticsService.remove_bot -> SQLiteBotConfigRepository.delete
Deregister(bot_id) ==
  /\ user_interactions' = InteractionsAfterDelete(user_interactions, bot_id)
  /\ bot_configs' = {c \in bot_configs : c.bot_id # bot_id}
  /\ exchange' = NoExchange
  /\ UNCHANGED jobs
  /\ answer' = NoAnswer
  /\ UNCHANGED <<cvars, batch_size, max_retries, tz_offset>>

\* AnalyticsSDK(..., batch_size=BatchSize); a server whose local time is UTC
InitConfig ==
  /\ batch_size = BatchSize
  /\ max_retries = MaxRetries
  /\ tz_offset = 0
  /\ answer = NoAnswer

IngestInit == InitClient /\ InitServer /\ InitConfig

IngestNext ==
  \/ \E req \in Requests : Receive(req)
  \/ Resend
  \/ \E i \in 1..MaxJobs : Lookup(i)
  \/ \E i \in 1..MaxJobs : RecordInteraction(i)
  \/ \E token \in Tokens : Register("n1", token)
  \/ \E token \in Tokens : Deregister(BotIdOf(token))

IngestSpec == IngestInit /\ [][IngestNext]_vars

Init == InitClient /\ InitServer /\ InitConfig

Next ==
  \/ \E t \in Producers : Track(t)
  \/ \E t \in Producers : Flush(t)
  \/ BgStart
  \/ BgWake
  \/ \E t \in Tasks, o \in {"ok", "lost_ack", "fail"} : Respond(t, o)
  \/ \E t \in Tasks : Backoff(t)
  \/ CloseCall
  \/ BgCancelled
  \/ CloseResume

Spec == Init /\ [][Next]_vars

\* ------------------------------------------------------------ statistics queries
\* A stored timestamp is the wall-clock reading the caller passed (datetime.now(), or the
\* client's naive ISO string), counted in ticks; sqlite3 stores it as text without zone.

\* date.today() of the server
Today == 31
\* timedelta(days=6) and timedelta(days=29) of get_bot_stats
WeekDays == 6
MonthDays == 29

\* SQL DATE(timestamp, 'localtime'): the stored text is read as UTC and moved to local time
DateLocaltime(ts) == (ts + tz_offset) \div TicksPerDay

\* (mutant) the WHERE bot_id = ? filter is missing
RowsOfAnyBot(bot_id) == 1..Len(user_interactions)

\* the indices of the rows WHERE bot_id = ?
RowsOfBot(bot_id) == {k \in 1..Len(user_interactions) : user_interactions[k].bot_id = bot_id}

\* the indices of the rows WHERE DATE(timestamp, 'localtime') >= ? AND ... <= ?
RowsBetween(K, from, to) ==
  {k \in K : /\ DateLocaltime(user_interactions[k].timestamp) >= from
             /\ DateLocaltime(user_interactions[k].timestamp) <= to}

\* COUNT(DISTINCT user_id) over the rows K
CountDistinctUsers(K) == Cardinality({user_interactions[k].user_id : k \in K})

\* MIN / MAX of a non-empty set of numbers
SetMin(S) == CHOOSE x \in S : \A y \in S : x <= y
SetMax(S) == CHOOSE x \in S : \A y \in S : x >= y

\* subquery T2: MIN(DATE(timestamp, 'localtime')) ... WHERE bot_id = ? GROUP BY user_id
FirstInteractionDate(bot_id, user_id) ==
  SetMin({DateLocaltime(user_interactions[k].timestamp) :
            k \in {j \in RowsOfBot(bot_id) : user_interactions[j].user_id = user_id}})

\* (mutant) the new-users query without the bot_id filters: the users of any bot whose
\* first interaction with any bot is dated target_date
NewUsersOfAnyBot(bot_id, target_date) ==
  {user_interactions[k].user_id : k \in
     {j \in 1..Len(user_interactions) :
        /\ DateLocaltime(user_interactions[j].timestamp) = target_date
        /\ \A i \in 1..Len(user_interactions) :
             user_interactions[i].user_id = user_interactions[j].user_id
               => DateLocaltime(user_interactions[i].timestamp) >= target_date}}

\* the new-users query: T1 JOIN T2 ON user_id WHERE T1.bot_id = ? AND T2.first... = ?
NewUsers(bot_id, target_date) ==
  {user_interactions[k].user_id : k \in
     {j \in RowsOfBot(bot_id) :
        FirstInteractionDate(bot_id, user_interactions[j].user_id) = target_date}}

\* SQLiteUserInteractionRepository.get_bot_stats
GetBotStats(bot_id, target_date) ==
  LET K == RowsOfBot(bot_id)
      cfgs == GetById(bot_id)
  IN [bot_id |-> bot_id,
      bot_name |-> IF cfgs = {} THEN "Unknown Bot" ELSE (CHOOSE c \in cfgs : TRUE).name,
      total_users |-> CountDistinctUsers(K),
      daily_active_users |-> CountDistinctUsers(RowsBetween(K, target_date, target_date)),
      weekly_active_users |->
        CountDistinctUsers(RowsBetween(K, target_date - WeekDays, target_date)),
      monthly_active_users |->
        CountDistinctUsers(RowsBetween(K, target_date - MonthDays, target_date)),
      new_users_today |-> Cardinality(NewUsers(bot_id, target_date)),
      total_interactions |-> Cardinality(K),
      \* Optional[datetime]: <<>> is None
      last_interaction |->
        IF K = {} THEN <<>> ELSE <<SetMax({user_interactions[k].timestamp : k \in K})>>]

\* all rows of user_interactions
AllRows == 1..Len(user_interactions)

\* GROUP BY bot_id over the rows K: COUNT(*) of one group
CountOfBot(K, bot_id) == Cardinality({k \in K : user_interactions[k].bot_id = bot_id})

\* the bot ids that have a group
BotsIn(K) == {user_interactions[k].bot_id : k \in K}

\* ORDER BY interaction_count DESC LIMIT 1: a first row of the ordering (ties in any
\* order); {Null} when there is no row
MostActive(K) ==
  IF K = {} THEN {Null}
  ELSE {b \in BotsIn(K) : \A c \in BotsIn(K) : CountOfBot(K, b) >= CountOfBot(K, c)}

\* ORDER BY interaction_count ASC LIMIT 1
LeastActive(K) ==
  IF K = {} THEN {Null}
  ELSE {b \in BotsIn(K) : \A c \in BotsIn(K) : CountOfBot(K, b) <= CountOfBot(K, c)}

\* the row LIMIT 1 returns among tied groups: SQL leaves it open, SQLite returns one
\* and the same row for one set of tied groups
FirstOfTies(S) == CHOOSE b \in S : TRUE

\* SQLiteUserInteractionRepository.get_global_stats: the result as a one-element set
GetGlobalStats(target_date) ==
  LET T == RowsBetween(AllRows, target_date, target_date)
  IN {[total_bots |-> Cardinality(bot_configs),
       active_bots |-> Cardinality(BotsIn(T)),
       total_users_across_bots |-> CountDistinctUsers(AllRows),
       total_interactions_today |-> Cardinality(T),
       most_active_bot |-> m,
       least_active_bot |-> l] :
         m \in {FirstOfTies(MostActive(T))}, l \in {FirstOfTies(LeastActive(T))}}

\* SQLiteUserInteractionRepository.get_activity_timeline: one entry per date of
\* all_dates_in_range, from activity_map or zero-filled
GetActivityTimeline(bot_id, days) ==
  LET start_date == Today - (days - 1)
      InRange == RowsBetween(RowsOfBot(bot_id), start_date, Today)
      OnDate(d) == RowsBetween(InRange, d, d)
  IN [i \in 1..days |->
        LET d == start_date + (i - 1)
        IN IF OnDate(d) # {}
           THEN [date |-> d, unique_users |-> CountDistinctUsers(OnDate(d)),
                 total_interactions |-> Cardinality(OnDate(d))]
           ELSE [date |-> d, unique_users |-> 0, total_interactions |-> 0]]

\* raise ValueError("Bot with ID ... not found")
NotFound == [error |-> "NotFound"]

\* AnalyticsService.get_bot_statistics
GetBotStatistics(bot_id) ==
  IF GetById(bot_id) = {} THEN NotFound ELSE GetBotStats(bot_id, Today)

\* BotManagementUseCase.get_bot_activity_timeline
GetBotActivityTimeline(bot_id, days) ==
  IF GetById(bot_id) = {} THEN NotFound ELSE GetActivityTimeline(bot_id, days)

\* ---- the stores and the queries of the statistics specification
BotIds == {BotIdOf(tok) : tok \in Tokens}

\* the dates around the window borders of get_bot_stats
StatDays == {Today - (MonthDays + 1), Today - MonthDays, Today - (WeekDays + 2),
             Today - (WeekDays + 1), Today - WeekDays, Today - 1, Today}

\* wall-clock readings: the first tick of each of these days, and the last tick of today
StatTimes == {d * TicksPerDay : d \in StatDays} \cup {Today * TicksPerDay + (TicksPerDay - 1)}

\* the server runs in UTC, or in a zone one tick east of it
TzOffsets == {0, 1}

StatsInit ==
  /\ InitClient
  /\ batch_size = BatchSize
  /\ max_retries = MaxRetries
  /\ bot_configs \in {{BotConfigRow(BotConfig("b1", "n1", "t1"))},
                      {BotConfigRow(BotConfig("b1", "n1", "t1")),
                       BotConfigRow(BotConfig("b2", "n1", "t2"))}}
  /\ user_interactions = <<>>
  /\ jobs = <<>>
  /\ exchange = NoExchange
  /\ tz_offset \in TzOffsets
  /\ answer = NoAnswer

\* record_interaction of an event of a registered bot, stamped ts; events arrive in
\* the order of their timestamps
StoreInteraction(bot_id, user_id, ts) ==
  /\ Len(user_interactions) < MaxStored
  /\ GetById(bot_id) # {}
  /\ \A k \in AllRows : user_interactions[k].timestamp <= ts
  /\ user_interactions' =
       Append(user_interactions,
              UserInteraction(bot_id, InteractionData(user_id, ts)))
  /\ answer' = NoAnswer
  /\ UNCHANGED <<bot_configs, jobs, exchange, batch_size, max_retries, tz_offset>>
  /\ UNCHANGED cvars

Answered(op, bot_id, days, result) ==
  /\ answer' = [op |-> op, bot_id |-> bot_id, days |-> days, result |-> result]
  /\ UNCHANGED <<svars, cvars, batch_size, max_retries, tz_offset>>

QueryBotStats(bot_id) ==
  Answered("get_bot_stats", bot_id, 0, GetBotStats(bot_id, Today))

QueryBotStatistics(bot_id) ==
  Answered("get_bot_statistics", bot_id, 0, GetBotStatistics(bot_id))

QueryTimeline(bot_id, days) ==
  Answered("get_activity_timeline", bot_id, days, GetBotActivityTimeline(bot_id, days))

QueryGlobalStats ==
  \E r \in GetGlobalStats(Today) : Answered("get_global_stats", Null, 0, r)

StatsNext ==
  \/ \E b \in BotIds, u \in UserIds, ts \in StatTimes : StoreInteraction(b, u, ts)
  \/ \E b \in BotIds : QueryBotStats(b)
  \/ \E b \in BotIds : QueryBotStatistics(b)
  \/ \E b \in BotIds, n \in 1..MaxWindow : QueryTimeline(b, n)
  \/ QueryGlobalStats

StatsSpec == StatsInit /\ [][StatsNext]_vars

\* ---- the registry: registrations, removals and stored events
Names == {"n1", "n2"}
Descriptions == {Null, "d1"}
\* the values of datetime.now() at a registration
Clock == {ServerDay, ServerDay + 1}

\* a second token of bot b2, as the platform hands out when a token is revoked
RegistryTokens == Tokens \cup {"t3"}

\* AnalyticsService.add_bot
AddBot(name, token, description) ==
  \E now \in Clock : AddBotAt(name, token, description, now)

\* raise ValueError("... already exists" / "... already registered")
DuplicateError == [error |-> "Duplicate"]

\* AnalyticsService.add_bot when the bot_id or the token is registered already
AddBotRejected(name, token, description) ==
  /\ GetById(BotIdOf(token)) # {} \/ GetByToken(token) # {}
  /\ Answered("add_bot", BotIdOf(token), 0, DuplicateError)

\* (mutant) UPDATE that also sets the token
UpdateWithToken(bot_config) ==
  /\ bot_configs' =
       {IF row.bot_id = bot_config.bot_id
        THEN [row EXCEPT !.name = bot_config.name, !.token = bot_config.token,
                         !.description = bot_config.description,
                         !.is_active = IF bot_config.is_active THEN 1 ELSE 0]
        ELSE row : row \in bot_configs}
  /\ answer' = NoAnswer
  /\ UNCHANGED <<user_interactions, jobs, exchange, batch_size, max_retries, tz_offset>>
  /\ UNCHANGED cvars

\* SQLiteBotConfigRepository.update: UPDATE ... SET name, description, is_active
\* WHERE bot_id = ?
Update(bot_config) ==
  /\ bot_configs' =
       {IF row.bot_id = bot_config.bot_id
        THEN [row EXCEPT !.name = bot_config.name,
                         !.description = bot_config.description,
                         !.is_active = IF bot_config.is_active THEN 1 ELSE 0]
        ELSE row : row \in bot_configs}
  /\ answer' = NoAnswer
  /\ UNCHANGED <<user_interactions, jobs, exchange, batch_size, max_retries, tz_offset>>
  /\ UNCHANGED cvars

\* the BotConfig objects update is called with: any token, any of the other fields
UpdateInputs ==
  {[bot_id |-> b, name |-> n, token |-> tok, description |-> d,
    created_at |-> ServerDay, is_active |-> a] :
     b \in BotIds, n \in {"n1"}, tok \in {"t3"}, d \in Descriptions, a \in BOOLEAN}

\* an event of a registered bot is recorded today
IngestEvent(bot_id, user_id) == StoreInteraction(bot_id, user_id, Today * TicksPerDay)

\* the one user whose events the registry specification stores
RegistryUser == CHOOSE u \in UserIds : TRUE

RegistryNext ==
  \/ \E name \in Names, token \in RegistryTokens, d \in Descriptions : AddBot(name, token, d)
  \/ \E name \in Names, token \in RegistryTokens, d \in Descriptions :
       AddBotRejected(name, token, d)
  \/ \E bot_config \in UpdateInputs : Update(bot_config)
  \/ \E b \in BotIds : Deregister(b)
  \/ \E b \in BotIds : IngestEvent(b, RegistryUser)

RegistrySpec == Init /\ [][RegistryNext]_vars

\* ---- the store: registrations, removals, submissions and queries on one server
\* the events of today, as track_interaction of the SDK stamps them
StoreEvents == {InteractionData(u, Today * TicksPerDay) : u \in UserIds}

\* a signed batch of the two events, every element carrying the credential
StoreBatchBody ==
  [bot_token |-> "t1",
   interactions |-> <<SendSinglePayload("t1", InteractionData(1, Today * TicksPerDay)),
                      SendSinglePayload("t1", InteractionData(2, Today * TicksPerDay))>>]

\* accepted submissions: single events with the API key, and the signed batch
StoreRequests ==
  {[endpoint |-> "/track-interaction", api_key |-> ApiKey, signature |-> NoSignature,
    body |-> SendSinglePayload(tok, ev)] : tok \in Tokens, ev \in StoreEvents}
  \cup {[endpoint |-> "/webhook/batch", api_key |-> Null,
          signature |-> CreateSignature(WebhookSecret, StoreBatchBody),
          body |-> StoreBatchBody]}

StoreNext ==
  \/ \E req \in StoreRequests : Receive(req)
  \/ \E i \in 1..MaxJobs : Lookup(i)
  \/ \E i \in 1..MaxJobs : RecordInteraction(i)
  \/ \E token \in Tokens : Register("n1", token)
  \/ \E token \in Tokens : Deregister(BotIdOf(token))
  \/ \E b \in BotIds : QueryBotStats(b)
  \/ \E b \in BotIds : QueryBotStatistics(b)
  \/ \E b \in BotIds, n \in 1..MaxWindow : QueryTimeline(b, n)
  \/ QueryGlobalStats

StoreSpec == Init /\ [][StoreNext]_vars

\* ------------------------------------------------------- claims, Delivery Client

InQueue(e) == e \in Range(interaction_queue)
InDelivery(e) == \E t \in Tasks : e \in Range(flush[t].batch)

IsIncreasing(s) == \A i, j \in 1..Len(s) : i < j => s[i] < s[j]

\* C1: every event accepted by track(immediate=false) is at every moment in the queue,
\* part of a batch whose delivery is in progress, or accepted by the endpoint at least
\* once; a drained batch whose delivery ends without success (retries exhausted, or cut
\* short by the cancellation of close()) is back in the queue.
C1_NoEventLost ==
  \A e \in 1..tracked : InQueue(e) \/ InDelivery(e) \/ e \in accepted

\* no flush() and no close() has been called: only track calls, the flushes they
\* trigger and the periodic flush have acted
OnlyTrackAndTimer ==
  /\ flushRet = "none"
  /\ \A t \in Producers : pc[t] # "flush"
  /\ pc["cl"] = "idle"

\* C2: delivery is FIFO relative to track calls, under any interleaving of track calls,
\* size-triggered flushes, the periodic flush and failed deliveries: no event is first
\* accepted after a later-tracked event was, and every batched request lists its events
\* in track order.
C2_FifoDelivery ==
  [][OnlyTrackAndTimer' =>
       /\ \A t \in Tasks : IsIncreasing(flush'[t].batch)
       /\ \A e \in accepted' \ accepted : \A e2 \in accepted : e2 < e]_vars

\* C9: when flush() is called with n queued events, nothing is tracked meanwhile and the
\* endpoint accepts the request, then on flush() returning true all n events have been
\* sent and none of them is left in the queue.
C9_FlushSendsAll ==
  [][\A t \in Producers :
       (/\ pc[t] = "flush" /\ pc'[t] = "idle" /\ flushRet' = "true"
        /\ flush[t].attempt = 0
        /\ tracked' = call[t].mark)
       => (/\ Range(call[t].queued) \cap Range(interaction_queue') = {}
           /\ Range(call[t].queued) \subseteq accepted')]_vars

\* C10: close() does not abort a delivery of the background flush task that is in
\* flight: once close() was called, that delivery ends only by its own outcome, its
\* events accepted or put back in the queue.
C10_CloseKeepsInFlight ==
  [][(/\ pc["cl"] # "idle"
      /\ flush["bg"].phase # "none"
      /\ flush'["bg"].batch # flush["bg"].batch)
     => \A e \in Range(flush["bg"].batch) :
           e \in accepted' \/ e \in Range(interaction_queue')]_vars

\* close() moves on from "await self.batch_task" only when the task has terminated;
\* its final flush starts with no batch task running; when it returns no batch task is
\* running, its final flush is over and the session is not open; nothing else closes
\* the session
CloseSteps ==
  /\ (pc["cl"] = "idle" /\ pc'["cl"] # "idle" /\ batch_task \notin {"none", "done"})
       => (cancel_pending' /\ pc'["cl"] = "await_task")
  /\ (pc["cl"] = "await_task" /\ pc'["cl"] # "await_task")
       => (pc'["cl"] = "resume" /\ batch_task' = "done")
  /\ (pc["cl"] # "final_flush" /\ pc'["cl"] = "final_flush")
       => (batch_task' \in {"none", "done"} /\ session' = "open")
  /\ (pc["cl"] # "closed" /\ pc'["cl"] = "closed")
       => (/\ batch_task' \in {"none", "done"}
           /\ flush'["cl"] = NoFlush
           /\ session' # "open")
  /\ (session = "open" /\ session' = "closed")
       => (pc["cl"] # "closed" /\ pc'["cl"] = "closed")

\* no track call was made since close() was called
NoTrackSinceClose == tracked = call["cl"].mark

ClientInit ==
  /\ InitClient
  /\ InitServer
  /\ batch_size \in 1..BatchSize
  /\ max_retries = MaxRetries
  /\ tz_offset = 0
  /\ answer = NoAnswer

ClientNext ==
  \/ \E t \in Producers : Track(t)
  \/ \E t \in Producers : TrackImmediate(t)
  \/ \E t \in Producers : Flush(t)
  \/ BgStart
  \/ BgWake
  \/ \E t \in Tasks, o \in {"ok", "lost_ack", "fail"} : Respond(t, o)
  \/ \E t \in Tasks : Backoff(t)

ClientSpec == ClientInit /\ [][ClientNext]_vars

\* <<1, ..., n>>: the first n tracked events in track order
FirstEvents(n) == [i \in 1..n |-> i]

\* no call and no delivery is in progress, and no flush() or immediate send was made
AllIdle ==
  /\ \A t \in Tasks : flush[t] = NoFlush
  /\ \A t \in Producers : pc[t] = "idle"
  /\ flushRet = "none"

\* the steps of B+1 successive track calls on an initially empty queue, the endpoint
\* accepting: no flush before the B-th call, the B-th call posts exactly the first B
\* events, the (B+1)-th call starts no flush and is left queued until the periodic flush
\* takes it, a further track call arrives or flush() is called
SizeTriggerSteps ==
  /\ (/\ AllIdle /\ accepted = {} /\ interaction_queue = FirstEvents(tracked)
      /\ tracked' = tracked + 1 /\ tracked + 1 < batch_size)
       => (/\ interaction_queue' = FirstEvents(tracked + 1)
           /\ \A t \in Tasks : flush'[t] = NoFlush)
  /\ (/\ AllIdle /\ accepted = {} /\ interaction_queue = FirstEvents(tracked)
      /\ tracked' = tracked + 1 /\ tracked + 1 = batch_size)
       => (/\ interaction_queue' = <<>>
           /\ \E t \in Producers :
                /\ flush'[t] = [batch |-> FirstEvents(batch_size), attempt |-> 0,
                                phase |-> "post"]
                /\ \A u \in Tasks \ {t} : flush'[u] = NoFlush)
  /\ (/\ AllIdle /\ accepted = 1..batch_size /\ interaction_queue = <<>>
      /\ tracked = batch_size /\ tracked' = tracked + 1)
       => (/\ interaction_queue' = <<batch_size + 1>>
           /\ \A t \in Tasks : flush'[t] = NoFlush)
  /\ (/\ AllIdle /\ accepted = 1..batch_size /\ interaction_queue = <<batch_size + 1>>
      /\ tracked = batch_size + 1 /\ interaction_queue' # interaction_queue)
       => \/ flush'["bg"].batch = <<batch_size + 1>>
          \/ tracked' = tracked + 1
          \/ \E t \in Producers : pc'[t] = "flush"

\* C12 (as stated): with batch size B, B+1 successive track calls on an empty queue
\* trigger exactly one automatic flush, by the B-th call, of exactly the first B events,
\* and leave the (B+1)-th event queued until the periodic timeout or further track calls.
C12_SizeTriggerAsStated == [][SizeTriggerSteps]_vars

\* C12 (amended): the same for every batch size B >= 2.
C12_SizeTrigger == [][batch_size >= 2 => SizeTriggerSteps]_vars

\* batch size 2, three calls: the first two events delivered by one flush, the third queued
C12_Witness ==
  /\ batch_size = 2
  /\ AllIdle
  /\ tracked = 3
  /\ accepted = {1, 2}
  /\ interaction_queue = <<3>>

\* task t takes a step of a track(immediate=true) call: the call, an attempt, a backoff
ImmediateStep(t) ==
  /\ pc[t] = "immediate" \/ pc'[t] = "immediate"
  /\ flush'[t] # flush[t] \/ pc'[t] # pc[t]

LiveNext ==
  \/ \E t \in Producers : tracked < LiveEvents /\ Track(t)
  \/ \E t \in Producers : Flush(t)
  \/ BgStart
  \/ BgWake
  \/ \E t \in Tasks, o \in {"ok", "lost_ack", "fail"} : Respond(t, o)
  \/ \E t \in Tasks : Backoff(t)
  \/ Stabilise

LiveSpec ==
  /\ Init
  /\ [][LiveNext]_vars
  /\ WF_vars(BgStart)
  /\ WF_vars(BgWake)
  /\ WF_vars(Stabilise)
  /\ \A t \in Tasks : WF_vars(\E o \in {"ok", "lost_ack", "fail"} : Respond(t, o))
  /\ \A t \in Tasks : WF_vars(Backoff(t))

\* C8: the client not being closed, every event tracked with immediate=false is
\* eventually accepted by the endpoint, also when fewer than batch_size events are
\* queued and no further track call arrives.
C8_EventualDelivery ==
  \A e \in 1..LiveEvents :
    (tracked >= e) ~> (e \in accepted)

\* an event tracked alone (fewer than batch_size queued) was delivered by the periodic flush
C8_Witness ==
  /\ tracked = 1
  /\ OnlyTrackAndTimer
  /\ endpointUp
  /\ accepted = {1}

\* ------------------------------------------------------- claims, ingestion side

\* the request carried the configured shared secret, or 'sha256=' + HMAC(secret, raw body)
Authenticated(req) ==
  \/ req.api_key = ApiKey
  \/ req.signature = CreateSignature(WebhookSecret, req.body)

\* a batch request as the Delivery Client produces it
FromClient(req) == req.endpoint = "/webhook/batch" /\ req.body \in ClientBatchBodies

\* number of stored rows equal to row
Copies(row) == Cardinality({k \in 1..Len(user_interactions) : user_interactions[k] = row})

\* C3: the batch request the Delivery Client produces (the credential once at top level,
\* the events without a credential of their own) passes the batch endpoint's validation.
C3_ClientBatchAccepted ==
  FromClient(exchange.req) => exchange.status # 422

\* C4: the endpoints answer a submission with Accepted, and start recording its
\* events, only if the request carried the shared secret or a valid signature.
C4_AcceptedOnlyAuthenticated ==
  /\ exchange.status = 200 => Authenticated(exchange.req)
  /\ \A i \in 1..Len(jobs) : Authenticated(jobs[i].req)

\* C5: a submission whose bot credential matches no registration is never answered
\* with Accepted / success.
C5_UnknownBotRejected ==
  (exchange.status # 0 /\ ~exchange.registered) => exchange.status # 200

\* C6: every stored interaction has a bot_id that is a live registration.
C6_ReferentialIntegrity ==
  \A k \in 1..Len(user_interactions) : GetById(user_interactions[k].bot_id) # {}

CredentialedResendDuplicates ==
  (/\ exchange.resent
   /\ exchange.req.endpoint = "/webhook/batch"
   /\ exchange.req.body \in CredentialedBatchBodies
   /\ exchange.status = 200
   /\ exchange.registered
   /\ jobs = <<>>)
  => \A k \in 1..Len(exchange.req.body.interactions) :
        Copies(UserInteraction(BotIdOf(exchange.req.body.bot_token),
                               Parsed(exchange.req.body.interactions[k]))) >= 2

\* ------------------------------------------------------- claims, statistics

\* the date of an event: the day of the wall-clock reading it was stamped with
DateOf(ts) == ts \div TicksPerDay

\* the rows of bot b dated in the closed range [from, to]
RowsDated(b, from, to) ==
  {k \in RowsOfBot(b) : /\ DateOf(user_interactions[k].timestamp) >= from
                        /\ DateOf(user_interactions[k].timestamp) <= to}

\* the distinct users of bot b with an event dated in [from, to]
UsersDated(b, from, to) == {user_interactions[k].user_id : k \in RowsDated(b, from, to)}

\* the users of bot b
UsersOf(b) == {user_interactions[k].user_id : k \in RowsOfBot(b)}

\* the date of user u's earliest event for bot b
EarliestDate(b, u) ==
  SetMin({DateOf(user_interactions[k].timestamp) :
            k \in {j \in RowsOfBot(b) : user_interactions[j].user_id = u}})

WindowMath(r, b) ==
  /\ r.daily_active_users = Cardinality(UsersDated(b, Today, Today))
  /\ r.weekly_active_users = Cardinality(UsersDated(b, Today - 6, Today))
  /\ r.monthly_active_users = Cardinality(UsersDated(b, Today - 29, Today))
  /\ r.total_users = Cardinality(UsersOf(b))

\* C14: daily, weekly and monthly active users of BotStats are the distinct users of the
\* bot with an event dated D, in [D-6, D] and in [D-29, D]; total_users those with any.
C14_WindowMath ==
  answer.op = "get_bot_stats" => WindowMath(answer.result, answer.bot_id)

\* the window math on a server whose local time is UTC
WindowMathInUtc ==
  (answer.op = "get_bot_stats" /\ tz_offset = 0) => WindowMath(answer.result, answer.bot_id)

NewUsersMath(r, b) ==
  /\ r.new_users_today = Cardinality({u \in UsersOf(b) : EarliestDate(b, u) = Today})
  /\ r.total_interactions = Cardinality(RowsOfBot(b))

\* C15: new_users_today is the number of distinct users whose earliest event for the
\* bot (events of other bots not considered) is dated D; total_interactions counts the
\* bot's events.
C15_NewUsersToday ==
  answer.op = "get_bot_stats" => NewUsersMath(answer.result, answer.bot_id)

NewUsersInUtc ==
  (answer.op = "get_bot_stats" /\ tz_offset = 0) => NewUsersMath(answer.result, answer.bot_id)

TimelineMath(r, b, n) ==
  /\ Len(r) = n
  /\ \A i \in 1..Len(r) :
       LET d == Today - (n - 1) + (i - 1)
       IN /\ r[i].date = d
          /\ r[i].unique_users = Cardinality(UsersDated(b, d, d))
          /\ r[i].total_interactions = Cardinality(RowsDated(b, d, d))

\* C16: the timeline for window N has exactly N entries dated D-(N-1) .. D in ascending
\* order, each with the distinct users and the events of the bot dated that day.
C16_Timeline ==
  (answer.op = "get_activity_timeline" /\ GetById(answer.bot_id) # {})
    => TimelineMath(answer.result, answer.bot_id, answer.days)

TimelineInUtc ==
  (answer.op = "get_activity_timeline" /\ GetById(answer.bot_id) # {} /\ tz_offset = 0)
    => TimelineMath(answer.result, answer.bot_id, answer.days)

\* no stored interaction names bot b
NoEventOf(b) == \A k \in 1..Len(user_interactions) : user_interactions[k].bot_id # b

\* C17: for a registered bot with zero stored interactions every counter of BotStats is
\* 0 and last_interaction is null, and the timeline for window N has N entries, each
\* with 0 users and 0 interactions, also when other bots have interactions.
C17_ZeroInteractions ==
  (GetById(answer.bot_id) # {} /\ NoEventOf(answer.bot_id)) =>
    /\ answer.op \in {"get_bot_stats", "get_bot_statistics"} =>
         /\ answer.result.total_users = 0
         /\ answer.result.daily_active_users = 0
         /\ answer.result.weekly_active_users = 0
         /\ answer.result.monthly_active_users = 0
         /\ answer.result.new_users_today = 0
         /\ answer.result.total_interactions = 0
         /\ answer.result.last_interaction = <<>>
    /\ answer.op = "get_activity_timeline" =>
         /\ Len(answer.result) = answer.days
         /\ \A i \in 1..Len(answer.result) :
              /\ answer.result[i].unique_users = 0
              /\ answer.result[i].total_interactions = 0

\* the statistics of a registered bot without interactions were asked for while the
\* other bot has interactions
C17_Witness ==
  /\ answer.op = "get_bot_statistics"
  /\ GetById(answer.bot_id) # {}
  /\ NoEventOf(answer.bot_id)
  /\ Len(user_interactions) = 2

\* the timeline of such a bot was asked for
C17_TimelineWitness ==
  /\ answer.op = "get_activity_timeline"
  /\ answer.days = 2
  /\ GetById(answer.bot_id) # {}
  /\ NoEventOf(answer.bot_id)
  /\ Len(user_interactions) = 2

\* the events of all bots dated d
AllDated(d) == {k \in AllRows : DateOf(user_interactions[k].timestamp) = d}

GlobalMath(r) ==
  LET T == AllDated(Today)
      n(b) == Cardinality({k \in T : user_interactions[k].bot_id = b})
      active == {user_interactions[k].bot_id : k \in T}
  IN /\ r.total_bots = Cardinality(bot_configs)
     /\ r.active_bots = Cardinality(active)
     /\ r.total_users_across_bots = Cardinality({user_interactions[k].user_id : k \in AllRows})
     /\ r.total_interactions_today = Cardinality(T)
     /\ (r.most_active_bot = Null) <=> (T = {})
     /\ (r.least_active_bot = Null) <=> (T = {})
     /\ T # {} => /\ r.most_active_bot \in active
                  /\ r.least_active_bot \in active
                  /\ \A b \in active : n(r.most_active_bot) >= n(b)
                  /\ \A b \in active : n(r.least_active_bot) <= n(b)
     /\ Cardinality(active) = 1 => r.most_active_bot = r.least_active_bot

\* C18: GlobalStats for date D: total_bots the registrations, active_bots the bots with
\* an event dated D, total_users_across_bots the distinct users over all bots and dates,
\* total_interactions_today the events dated D, most / least active a bot with the most /
\* fewest events dated D among the active ones, both null exactly when none is dated D.
C18_GlobalStats ==
  answer.op = "get_global_stats" => GlobalMath(answer.result)

GlobalStatsInUtc ==
  (answer.op = "get_global_stats" /\ tz_offset = 0) => GlobalMath(answer.result)

\* ------------------------------------------------------------ claims, registration
\* the stored interactions of bot b, in order
InteractionsOf(b) == SelectSeq(user_interactions, LAMBDA r : r.bot_id = b)

\* the state a deregister(b) that returned true leaves: nothing of b, the rest untouched
Cascaded(b) ==
  /\ InteractionsOf(b)' = <<>>
  /\ GetById(b)' = {}
  /\ \A c \in GetById(b) : GetByToken(c.token)' = {}
  /\ GetBotStatistics(b)' = NotFound
  /\ \A n \in 1..MaxWindow : GetBotActivityTimeline(b, n)' = NotFound
  /\ \A o \in BotIds \ {b} :
       /\ InteractionsOf(o)' = InteractionsOf(o)
       /\ GetById(o)' = GetById(o)

\* C19: after deregister(bot_id) returns true the store holds no interaction of
\* that bot, lookups by id and by token return nothing, statistics and timeline
\* queries fail with NotFound, and the other bots' interactions and registrations
\* are unchanged; deregister of an unregistered bot_id returns false and changes
\* nothing.
C19_RemovalCascades ==
  [][\A b \in BotIds :
       Deregister(b) =>
         IF DeleteReturns(b) THEN Cascaded(b)
         ELSE UNCHANGED <<bot_configs, user_interactions>>]_vars

\* the part of C19 about a deregister that returns true
RemovalOfRegisteredCascades ==
  [][\A b \in BotIds : (Deregister(b) /\ DeleteReturns(b)) => Cascaded(b)]_vars

\* deregister of an unregistered bot changes nothing when no interaction names it
UnregisteredRemovalWithoutOrphans ==
  [][\A b \in BotIds :
       (Deregister(b) /\ ~DeleteReturns(b) /\ InteractionsOf(b) = <<>>)
         => UNCHANGED <<bot_configs, user_interactions>>]_vars

\* the step is a write to the stores: no answer of a query or of a refused call is left
IsWrite == answer'.op = "none"

\* C20: after register(name, token, description) returns registration r,
\* lookup(r.bot_id) and lookup_by_token(token) return a registration equal to r in
\* every field, and keep returning it in every later state until the bot is
\* deregistered, whatever other bots are registered or removed and whatever events
\* are ingested in between.
C20_RegistrationRoundTrip ==
  [][/\ \A name \in Names, token \in RegistryTokens, d \in Descriptions, now \in Clock :
          (IsWrite /\ AddBotAt(name, token, d, now)) =>
            LET r == AddBotReturns(name, token, d, now)
            IN /\ GetById(r.bot_id)' = {r}
               /\ GetByToken(token)' = {r}
     /\ \A b \in BotIds :
          (GetById(b) # {} /\ ~(IsWrite /\ Deregister(b))
             /\ ~(IsWrite /\ \E bot_config \in UpdateInputs : Update(bot_config))) =>
            /\ GetById(b)' = GetById(b)
            /\ \A c \in GetById(b) : GetByToken(c.token)' = {c}]_vars

\* a registration with a description, made after ServerDay, is looked up while the
\* other bot is not registered and events of this bot are stored
C20_Witness ==
  /\ \E c \in GetById("b1") :
       c.description = "d1" /\ c.created_at = ServerDay + 1 /\ GetByToken(c.token) = {c}
  /\ GetById("b2") = {}
  /\ Len(user_interactions) = 2

\* no two rows of bot_configs share a bot_id or a token
UniqueRegistrations ==
  \A c1, c2 \in bot_configs : (c1.bot_id = c2.bot_id \/ c1.token = c2.token) => c1 = c2

\* the registrations as (bot_id, token) pairs
Identities == {<<c.bot_id, c.token>> : c \in bot_configs}

\* C21: no two registrations share a bot_id and no two share a token; the bot_id and
\* token of an existing registration never change; a register call whose derived
\* bot_id or whose token is already registered fails with a duplicate error and
\* leaves the registry unchanged; update changes only name, description and the
\* active flag.
C21_UniqueImmutable ==
  [][/\ UniqueRegistrations'
     /\ \A b \in BotIds :
          (GetById(b) # {} /\ GetById(b)' # {}) =>
            {c.token : c \in GetById(b)'} = {c.token : c \in GetById(b)}
     /\ \A name \in Names, token \in RegistryTokens, d \in Descriptions :
          (GetById(BotIdOf(token)) # {} \/ GetByToken(token) # {}) =>
            /\ \A now \in Clock : ~(IsWrite /\ AddBotAt(name, token, d, now))
            /\ (answer'.op = "add_bot" /\ AddBotRejected(name, token, d)) =>
                 (bot_configs' = bot_configs /\ answer'.result = DuplicateError)
     /\ \A bot_config \in UpdateInputs :
          (IsWrite /\ Update(bot_config)) =>
            /\ Identities' = Identities
            /\ \A row \in bot_configs : \E new \in bot_configs' :
                 /\ new.bot_id = row.bot_id /\ new.token = row.token
                 /\ new.created_at = row.created_at
                 /\ row.bot_id # bot_config.bot_id => new = row]_vars

\* a register call with the second token of a registered bot was rejected, and a
\* registration was updated
C21_Witness ==
  /\ answer.op = "add_bot"
  /\ \E c \in GetById("b2") : c.token = "t2" /\ ~c.is_active
  /\ GetById("b1") # {}

\* ------------------------------------------------------- claims, flushes of the client
\* task t is inside _send_batch: it holds drained events, neither delivered nor restored
IsFlushing(t) == flush[t].phase # "none" /\ flush[t].batch # <<ImmediateEvent>>

\* C22: at most one flush of a Delivery Client is in progress at any time: a flush
\* started by a track call that filled the batch, by the periodic cycle or by flush()
\* never starts while another flush holds drained events that are neither delivered
\* nor restored.
C22_SingleFlusher == Cardinality({t \in Tasks : IsFlushing(t)}) <= 1

\* task t's batched delivery fails for good in this step: its events go back to the queue
FailsForGood(t) ==
  /\ IsFlushing(t)
  /\ flush'[t].phase = "none"
  /\ Len(interaction_queue') > Len(interaction_queue)

\* C23: when the delivery of a drained batch exhausts its retries, the drained events
\* are put back at the front of the queue in their original relative order, ahead of
\* every event tracked meanwhile: the queue after the failure is the drained batch
\* followed by the queue as it was, for every batch length.
C23_FailureUndoesDrain ==
  [][\A t \in Tasks :
       FailsForGood(t) => interaction_queue' = flush[t].batch \o interaction_queue]_vars

\* the same for batches of one event
SingletonFailureUndoesDrain ==
  [][\A t \in Tasks :
       (FailsForGood(t) /\ Len(flush[t].batch) = 1)
         => interaction_queue' = flush[t].batch \o interaction_queue]_vars

\* C24: an event tracked with immediate=false is never part of a delivery attempt
\* while an earlier-tracked event of the client is still undelivered and not part of
\* the same attempt.
C24_HeadOfLineBlocking ==
  \A t \in Tasks :
    IsFlushing(t) =>
      \A e \in Range(flush[t].batch) : \A d \in 1..(e - 1) :
        d \in accepted \/ d \in Range(flush[t].batch)

\* ------------------------------------------------------- one client task, attempt by attempt
\* the task that uses the client
Sender == "p1"

\* AnalyticsSDK.get_stats; success_rate as the fraction num / den
GetStats ==
  [sent_count |-> sent_count,
   failed_count |-> failed_count,
   queued_count |-> Len(interaction_queue),
   last_error |-> last_error,
   success_rate |-> IF sent_count + failed_count > 0
                    THEN [num |-> sent_count, den |-> sent_count + failed_count]
                    ELSE [num |-> 1, den |-> 1]]

\* the owner of the client reads the statistics
GetStatsCall ==
  /\ answer.op = "none"
  /\ Answered("get_stats", Null, 0, GetStats)

\* and drops them
AnswerDropped ==
  /\ answer.op # "none"
  /\ answer' = NoAnswer
  /\ UNCHANGED <<svars, cvars, batch_size, max_retries, tz_offset>>

\* AnalyticsSDK(..., max_retries=n) for n in 1..MaxAttempts
WebhookInit ==
  /\ InitClient
  /\ InitServer
  /\ batch_size = BatchSize
  /\ max_retries \in 1..MaxAttempts
  /\ tz_offset = 0
  /\ answer = NoAnswer

WebhookNext ==
  \/ answer.op = "none" /\ Track(Sender)
  \/ answer.op = "none" /\ TrackImmediate(Sender)
  \/ answer.op = "none" /\ Flush(Sender)
  \/ answer.op = "none" /\ \E status \in Statuses : SendWebhookAttempt(Sender, status)
  \/ answer.op = "none" /\ Backoff(Sender)
  \/ GetStatsCall
  \/ AnswerDropped

WebhookSpec == WebhookInit /\ [][WebhookNext]_vars

\* ------------------------------------------------------- claims, deliveries
\* a status in the 2xx range
Is2xx(status) == status \in 200..299

\* the delivery of task t ends in this step as successful: nothing is retried, nothing
\* goes back to the queue
EndsSuccessful(t) ==
  /\ flush'[t] = NoFlush
  /\ interaction_queue' = interaction_queue
  /\ sent_count' = sent_count + 1
  /\ failed_count' = failed_count

\* C25: a delivery attempt counts as a success if and only if the endpoint answers
\* with a status in the 2xx range: every 2xx status ends the delivery as successful
\* without retry and without re-queueing, every other status and every transport
\* error counts as a failed attempt.
C25_SuccessIs2xx ==
  [][\A status \in Statuses :
       SendWebhookAttempt(Sender, status) => (Is2xx(status) <=> EndsSuccessful(Sender))]_vars

\* the same with status 200 in place of the 2xx range
SuccessIs200 ==
  [][\A status \in Statuses :
       SendWebhookAttempt(Sender, status) => (status = 200 <=> EndsSuccessful(Sender))]_vars

\* the sleeps between n attempts: 2^0, 2^1, ..., 2^(n-2)
WaitsBetween(n) == [k \in 1..(n - 1) |-> 2 ^ (k - 1)]

\* the retry policy, Good(status) being what counts as a successful attempt
RetryPolicy(Good(_)) ==
  LET n == Len(log.statuses)
  IN /\ n <= max_retries
     /\ \A k \in 1..(n - 1) : ~Good(log.statuses[k])
     /\ (n > 0 /\ Good(log.statuses[n])) => log.result = "true"
     /\ log.result = "true" => Good(log.statuses[n])
     /\ log.result = "false" => (n = max_retries /\ \A k \in 1..n : ~Good(log.statuses[k]))
     /\ (n = max_retries /\ \A k \in 1..n : ~Good(log.statuses[k])) => log.result = "false"
     /\ log.waits = IF log.result = "none" THEN WaitsBetween(n + 1) ELSE WaitsBetween(n)

\* C26: a delivery makes at most max_retries attempts, stops at the first successful
\* attempt, and reports failure only after exactly max_retries failed attempts; after
\* the failed attempt with index k < max_retries - 1 it waits 2^k seconds, and no wait
\* follows the last attempt.
C26_RetryPolicy == RetryPolicy(Is2xx)

\* the same with status 200 as the only successful answer
RetryPolicyOn200 == RetryPolicy(LAMBDA status : status = 200)

\* the rate get_stats reports is sent / (sent + failed), and 1 when nothing completed
RateAsStated(r) ==
  IF r.sent_count + r.failed_count = 0 THEN r.success_rate.num = r.success_rate.den
  ELSE r.success_rate.num * (r.sent_count + r.failed_count) = r.sent_count * r.success_rate.den

\* C29: every delivery request that runs to completion increments exactly one of
\* sent_count and failed_count, by exactly 1, whatever the number of events it carried
\* or attempts it took, so sent_count + failed_count is the number of completed
\* requests; queued_count is the queue length; success_rate is
\* sent_count / (sent_count + failed_count), and 1 when no request has completed.
C29_Counters ==
  [][/\ sent_count' + failed_count' = completed'
     /\ \A status \in Statuses :
          SendWebhookAttempt(Sender, status) =>
            IF flush'[Sender] = NoFlush
            THEN \/ sent_count' = sent_count + 1 /\ failed_count' = failed_count
                 \/ sent_count' = sent_count /\ failed_count' = failed_count + 1
            ELSE sent_count' = sent_count /\ failed_count' = failed_count
     /\ answer'.op = "get_stats" =>
          /\ answer'.result.sent_count = sent_count'
          /\ answer'.result.failed_count = failed_count'
          /\ answer'.result.queued_count = Len(interaction_queue')
          /\ RateAsStated(answer'.result)]_vars

\* the statistics are read after a batch of two events was delivered at the second
\* attempt and another delivery failed
C29_Witness ==
  /\ answer.op = "get_stats"
  /\ answer.result.sent_count = 1
  /\ answer.result.failed_count = 1
  /\ answer.result.queued_count > 0


\* ---------------------------------------------------------- claims, the store
QueryOps == {"get_bot_stats", "get_bot_statistics", "get_activity_timeline",
             "get_global_stats"}

\* the step stores the event its job is at, and nothing else
AddsOneInteraction ==
  \E i \in 1..Len(jobs) :
    /\ jobs[i].pos = "insert"
    /\ Len(user_interactions') = Len(user_interactions) + 1
    /\ SubSeq(user_interactions', 1, Len(user_interactions)) = user_interactions
    /\ LET row == user_interactions'[Len(user_interactions')]
           ev == Head(jobs[i].items)
       IN /\ row.bot_id = jobs[i].target
          /\ row.user_id = ev.user_id
          /\ row.timestamp = ev.timestamp
    /\ bot_configs' = bot_configs

\* the step removes the registration of b and its rows, and keeps every other row in place
RemovesInteractionsOf(b) ==
  /\ GetById(b)' = {}
  /\ \A c \in bot_configs : c.bot_id # b => c \in bot_configs'
  /\ bot_configs' \subseteq bot_configs
  /\ \A k \in 1..Len(user_interactions') : user_interactions'[k].bot_id # b
  /\ \E f \in [1..Len(user_interactions') -> 1..Len(user_interactions)] :
       /\ \A k \in 1..Len(user_interactions') : user_interactions'[k] = user_interactions[f[k]]
       /\ \A k, l \in 1..Len(user_interactions') : k < l => f[k] < f[l]
       /\ \A j \in 1..Len(user_interactions) :
            user_interactions[j].bot_id # b => \E k \in 1..Len(user_interactions') : f[k] = j

\* the step is a query: it leaves an answer
IsQuery == answer'.op \in QueryOps

\* the step repeats the query whose answer is at hand
RepeatsQuery ==
  /\ IsQuery
  /\ answer.op = answer'.op
  /\ answer.bot_id = answer'.bot_id
  /\ answer.days = answer'.days

\* the step ends the track_interaction call of one event of an accepted submission
EventDone ==
  \E i \in 1..Len(jobs) :
    \/ jobs' = RemoveAt(jobs, i)
    \/ /\ Len(jobs') = Len(jobs)
       /\ Len(jobs'[i].items) < Len(jobs[i].items)

\* the rows are left alone, or one is added, or the rows of one bot are removed
AppendOnlyStep ==
  \/ user_interactions' = user_interactions
  \/ AddsOneInteraction
  \/ \E b \in BotIds : RemovesInteractionsOf(b)

\* a query leaves the registrations and the rows alone, and repeated with no write in
\* between (the answer of the first is still at hand) it returns the same result
PureQueryStep ==
  /\ IsQuery => /\ bot_configs' = bot_configs
                /\ user_interactions' = user_interactions
  /\ RepeatsQuery => answer'.result = answer.result

\* C27: interactions are only ever added, and only a removal of a bot deletes any,
\* exactly the rows of that bot; every event of an accepted submission adds exactly
\* one interaction; a query changes neither the registrations nor the interactions,
\* and two identical queries with no write in between return the same result
C27_AppendOnlyPureQueries ==
  [][AppendOnlyStep /\ (EventDone => AddsOneInteraction) /\ PureQueryStep]_vars

\* the same without the count of rows per accepted event: the store is append-only
\* but for removals, and the queries are pure
AppendOnlyAndPure == [][AppendOnlyStep /\ PureQueryStep]_vars

\* every event of an accepted submission whose bot is registered at the lookup adds
\* exactly one interaction
RegisteredEventAddsOne ==
  [][\A i \in 1..Len(jobs) :
       (jobs[i].pos = "lookup" /\ GetByToken(jobs[i].req.body.bot_token) # {}) =>
         ~ (jobs' = RemoveAt(jobs, i)
            \/ (Len(jobs') = Len(jobs) /\ Len(jobs'[i].items) < Len(jobs[i].items)))]_vars


\* ------------------------------------------------ claims, the order of the counts
Ordered(r) ==
  /\ r.new_users_today <= r.daily_active_users
  /\ r.daily_active_users <= r.weekly_active_users
  /\ r.weekly_active_users <= r.monthly_active_users
  /\ r.monthly_active_users <= r.total_users
  /\ r.total_users <= r.total_interactions

\* C28: for every content of the store (events dated after the reference date and
\* repeated events included) and every reference date, the statistics of a bot satisfy
\* new_users_today <= daily_active_users <= weekly_active_users <=
\* monthly_active_users <= total_users <= total_interactions
C28_OrderedCounts ==
  /\ \A b \in BotIds, d \in StatDays : Ordered(GetBotStats(b, d))
  /\ answer.op = "get_bot_stats" => Ordered(answer.result)

\* an answer in which a returning user, a user of long ago and a repeated user show:
\* three of the five comparisons are strict
C28_Witness ==
  /\ answer.op = "get_bot_stats"
  /\ answer.result.new_users_today < answer.result.daily_active_users
  /\ answer.result.monthly_active_users < answer.result.total_users
  /\ answer.result.total_users < answer.result.total_interactions

\* the statistics at a reference date before the last stored event
C28_WitnessEarlierDate ==
  \E b \in BotIds, d \in StatDays :
    /\ \E k \in AllRows : /\ user_interactions[k].bot_id = b
                          /\ user_interactions[k].timestamp \div TicksPerDay > d
    /\ GetBotStats(b, d).daily_active_users = 1
    /\ GetBotStats(b, d).weekly_active_users < GetBotStats(b, d).total_users


\* ------------------------------------- claims, global statistics and registrations
IsLiveOrNull(bot_id) == bot_id = Null \/ GetById(bot_id) # {}

OverLiveBots(r) ==
  /\ r.active_bots <= r.total_bots
  /\ IsLiveOrNull(r.most_active_bot)
  /\ IsLiveOrNull(r.least_active_bot)

\* C30: whatever registrations, removals and submissions came before, the global
\* statistics have active_bots <= total_bots, and most_active_bot and
\* least_active_bot, when not null, are bot_ids of live registrations
C30_GlobalOverLiveBots ==
  answer.op = "get_global_stats" => OverLiveBots(answer.result)

\* the same where every stored interaction belongs to a live registration
GlobalOverLiveBotsWithoutOrphans ==
  (answer.op = "get_global_stats" /\ C6_ReferentialIntegrity) => OverLiveBots(answer.result)

\* global statistics answered while both bots are registered and active today
GlobalOfTwoActiveBots ==
  /\ answer.op = "get_global_stats"
  /\ C6_ReferentialIntegrity
  /\ answer.result.active_bots = 2

====
